---------------------------- MODULE Spec2Model ----------------------------
(***************************************************************************)
(* A model of swungdash / squigglypy: the scoped execution context         *)
(* (src/swungdash/context.py) and the lazy expression tree with its        *)
(* resolution, constancy analysis and structural traversal                 *)
(* (src/squigglypy/tree.py).                                               *)
(*                                                                         *)
(* Three specifications share the variables:                               *)
(*   SpecCtx      two execution flows entering and leaving Context scopes  *)
(*   SpecResolve  one flow resolving stochastic nodes under nested scopes  *)
(*   SpecTree     bfs / mark_constancy / as_model over built trees         *)
(***************************************************************************)
EXTENDS Integers, Sequences, FiniteSets, TLC

VARIABLES
    current,     \* Context.context (the ContextVar): flow -> active SwungdashContext
    managers,    \* flow -> stack of the Context managers of the open `with` blocks
    unwinding,   \* flow -> an exception is propagating through its `with` blocks
    caches,      \* the cache dicts, by identity: cache id -> <<entry, ...>>
    entered,     \* history: flow -> per open scope, the context active before entry
    lastExit,    \* history: flow -> how the flow's latest step left a scope
    nextArr,     \* identity given to the next array a sampler or concatenate makes
    log,         \* history: the resolutions performed so far
    nodes,       \* the heap of tree nodes: node id -> node object
    runs         \* history: what each bfs call was given and returned

ctxVars == <<current, managers, unwinding, caches, entered, lastExit>>
resVars == <<nextArr, log>>
treeVars == <<nodes, runs>>
vars == <<current, managers, unwinding, caches, entered, lastExit, nextArr, log,
          nodes, runs>>

---------------------------------------------------------------------------
(* Bounds of the model *)

MaxDepth == 2        \* open `with Context(...)` blocks per flow
MaxResolves == 2     \* resolutions performed in one behaviour

(* Program constants *)

DEFAULT_SAMPLE_COUNT == 1000

Flows == {1, 2}

---------------------------------------------------------------------------
(* Small helpers *)

Max(S) == CHOOSE x \in S : \A y \in S : y <= x

Min(S) == CHOOSE x \in S : \A y \in S : x <= y

Last(s) == s[Len(s)]

Front(s) == SubSeq(s, 1, Len(s) - 1)

Range(s) == {s[i] : i \in DOMAIN s}

(* The element of a one-element set.  { F(x) : x \in {e} } evaluates e     *)
(* once and hands F its value.                                             *)
The(S) == CHOOSE r \in S : TRUE

(* Optional values: Python's None is <<>>, any other value v is <<v>>. *)
NoneV == <<>>

Some(v) == <<v>>

---------------------------------------------------------------------------
(* SwungdashContext objects.  `id` is the object's identity; `owner` is    *)
(* history: the flow whose code constructed the object (0: the common      *)
(* ancestor of the two flows, before they were started).                   *)

Unset == [id |-> 0, owner |-> 0, cache |-> 0, cache_rule |-> "unset", sample_count |-> 0]

SwungdashContext(id, owner, cache, cache_rule, sample_count) ==
    [id |-> id, owner |-> owner, cache |-> cache, cache_rule |-> cache_rule,
     sample_count |-> sample_count]

(* The ids of the context objects flow f made that are still referred to. *)
LiveIds(cur, mgrs, f) ==
    LET all == {cur[g] : g \in Flows}
                 \cup UNION {{mgrs[g][i].saved_context : i \in DOMAIN mgrs[g]} : g \in Flows}
                 \cup UNION {{mgrs[g][i].new_context : i \in DOMAIN mgrs[g]} : g \in Flows}
    IN  {c.id : c \in {d \in all : d.owner = f /\ d # Unset}}

(* A new object gets an identity no live object has.  Identities stand    *)
(* for addresses: the storage of a dead object is reused, and the objects  *)
(* of flow f take the identities congruent to f modulo the number of flows *)
(* (the ancestor's context, if any, has identity ParentId).                *)
ParentId == 0 - 1

FreshCtxId(cur, mgrs, f) ==
    LET live == LiveIds(cur, mgrs, f)
        n == Cardinality(Flows)
        slots == 1..(Cardinality(live) + 1)
    IN  Min({n * i + f : i \in {j \in slots : (n * j + f) \notin live}})

(* A machine state as the context code sees it. *)
Machine(cur, mgrs, cs) == [current |-> cur, managers |-> mgrs, caches |-> cs]

(* contextvars.ContextVar.set: the variable is local to the calling flow. *)
ContextVarSetShared(cur, f, ctx) == [g \in Flows |-> ctx]

ContextVarSet(cur, f, ctx) == [cur EXCEPT ![f] = ctx]

(* Context.setcontext *)
setcontext(M, f, ctx) == [M EXCEPT !.current = ContextVarSet(M.current, f, ctx)]

(* Context.getcontext: the flow's context, a default one installed on first use *)
getcontext(M, f) ==
    IF M.current[f] # Unset
    THEN [M |-> M, ret |-> M.current[f]]
    ELSE LET cid == Len(M.caches) + 1
             ctx == SwungdashContext(FreshCtxId(M.current, M.managers, f), f, cid,
                                     "constant", DEFAULT_SAMPLE_COUNT)
             M1 == [M EXCEPT !.caches = Append(M.caches, <<>>)]
         IN  [M |-> setcontext(M1, f, ctx), ret |-> ctx]

(* Keyword arguments of a Context manager: an absent keyword is NoneV.  A  *)
(* cache keyword names a dict: an existing one, or a new empty one (id one *)
(* past the dicts that exist).                                             *)
Kwargs(sc, rule, cache) == [sample_count |-> sc, cache_rule |-> rule, cache |-> cache]

NoKwargs == Kwargs(NoneV, NoneV, NoneV)

\* the new context's field: dict(vars(saved_context), kwargs)[field]
Override(saved, kw, field) == IF kw[field] = NoneV THEN saved[field] ELSE kw[field][1]

(* the new context given a dict of its own, filled with what its cache     *)
(* holds on entry                                                          *)
EnterSavedCopiedCache(M, f, kw, saved) ==
    LET new == SwungdashContext(FreshCtxId(M.current, M.managers, f), f,
                                Len(M.caches) + 1,
                                Override(saved, kw, "cache_rule"),
                                Override(saved, kw, "sample_count"))
        mgr == [kwargs |-> kw, saved_context |-> saved, new_context |-> new]
    IN  [M |-> setcontext([M EXCEPT !.managers[f] = Append(@, mgr),
                                    !.caches = Append(@, @[Override(saved, kw, "cache")])],
                          f, new),
         ret |-> new]

(* Context.__enter__ of a manager built with kwargs kw, saved being what   *)
(* getcontext() returned and M the state it left                           *)
EnterSaved(M, f, kw, saved) ==
    LET new == SwungdashContext(FreshCtxId(M.current, M.managers, f), f,
                                Override(saved, kw, "cache"),
                                Override(saved, kw, "cache_rule"),
                                Override(saved, kw, "sample_count"))
        mgr == [kwargs |-> kw, saved_context |-> saved, new_context |-> new]
    IN  [M |-> setcontext([M EXCEPT !.managers[f] = Append(@, mgr)], f, new),
         ret |-> new]

Context__enter__(M, f, kw) ==
    The({ EnterSaved(g.M, f, kw, g.ret) : g \in {getcontext(M, f)} })

(* Context.__exit__ of the innermost open manager; the exception          *)
(* information is ignored and nothing is returned, so an exception goes on *)
Context__exit__NoRestore(M, f) == [M EXCEPT !.managers[f] = Front(@)]

Context__exit__(M, f) ==
    LET mgr == Last(M.managers[f])
        M1 == [M EXCEPT !.managers[f] = Front(@)]
    IN  setcontext(M1, f, mgr.saved_context)

---------------------------------------------------------------------------
(* Tree nodes (tree.py).  A node object is a record; the heap `nodes` maps *)
(* a node's identity to it.  The `value` attribute of a Value holds a      *)
(* number, another node, an Operation, or the _empty sentinel.             *)

Payload(tag, num, node, function, this, other) ==
    [tag |-> tag, num |-> num, node |-> node, function |-> function,
     this |-> this, other |-> other]

Num(c) == Payload("num", c, 0, "", 0, 0)

Ref(n) == Payload("node", 0, n, "", 0, 0)

_empty == Payload("empty", 0, 0, "", 0, 0)

(* Operation(function, this, other): this and other are Value nodes *)
Operation(function, this, other) == Payload("op", 0, 0, function, this, other)

(* Distribution and Mixture never run Value.__init__: no value attribute *)
NoAttr == Payload("absent", 0, 0, "", 0, 0)

(* writes and rewritten are history: how often constant was assigned, and *)
(* whether an assignment replaced a boolean by the other boolean.          *)
Node(kind, value, constant, name, function, args, kwargs, values) ==
    [kind |-> kind, value |-> value, constant |-> constant, name |-> name,
     function |-> function, args |-> args, kwargs |-> kwargs, values |-> values,
     writes |-> 0, rewritten |-> FALSE]

(* Value(value, constant=None, name=None) *)
Value(value, constant, name) == Node("Value", value, constant, name, "", <<>>, <<>>, <<>>)

\* Distribution(function, args..., name=None, kwargs...); the class sets
\* constant = True.  kwargs: <<name, value>> pairs in the order given.
Distribution(function, args, kwargs, name) ==
    Node("Distribution", NoAttr, Some(TRUE), name, function, args, kwargs, <<>>)

(* Mixture(values, name=None); constant is Value's class attribute, None *)
Mixture(values, name) == Node("Mixture", NoAttr, NoneV, name, "", <<>>, <<>>, values)

IsValue(nd) == nd.kind \in {"Value", "Distribution", "Mixture"}

---------------------------------------------------------------------------
(* Cache keys (context.py CacheKey; tree.py cache_key properties).  A key  *)
(* that is no CacheKey but a Value's raw content is marked by `raw`.       *)

CacheKey(function, args, kwargs, sample_count, nested) ==
    [function |-> function, args |-> args, kwargs |-> kwargs,
     sample_count |-> sample_count, nested |-> nested, raw |-> NoneV]

RawKey(v) ==
    [function |-> NoneV, args |-> NoneV, kwargs |-> NoneV,
     sample_count |-> NoneV, nested |-> NoneV, raw |-> Some(v)]

(* The order of keyword names under sorted(): their rank in the alphabet *)
KwargNames == <<"high", "loc", "low", "scale">>

Rank(name) == CHOOSE i \in DOMAIN KwargNames : KwargNames[i] = name

(* the items in the order the keywords were given *)
ItemsAsGiven(items) == items

(* tuple(sorted(self.kwargs.items())) *)
SortedItems(items) ==
    LET ranks == {Rank(items[i][1]) : i \in DOMAIN items}
        nth(j) == CHOOSE r \in ranks : Cardinality({q \in ranks : q < r}) = j - 1
        item(r) == items[CHOOSE i \in DOMAIN items : Rank(items[i][1]) = r]
    IN  [j \in 1..Cardinality(ranks) |-> item(nth(j))]

(* The flow that resolves. *)
Main == Min(Flows)

(* The state a resolution threads through: the context machine, the array *)
(* allocator, and (history) how often a sampling function was invoked.    *)
ResState(M, arr, calls) == [M |-> M, nextArr |-> arr, calls |-> calls]

RECURSIVE cache_key(_, _, _)

RECURSIVE MixtureNestedKeys(_, _, _, _, _)

(* dataclasses.replace(key, sample_count=None): a TypeError on a raw key *)
Replace(key) == [key EXCEPT !.sample_count = NoneV]

(* the generator of Mixture.cache_key, from the i-th value on *)
MixtureNestedKeys(H, values, i, R, acc) ==
    IF i > Len(values) THEN [R |-> R, keys |-> acc, ok |-> TRUE]
    ELSE The({ IF ~k.ok \/ k.key.raw # NoneV
               THEN [R |-> k.R, keys |-> acc, ok |-> FALSE]
               ELSE MixtureNestedKeys(H, values, i + 1, k.R, Append(acc, Replace(k.key)))
               : k \in {cache_key(H, values[i], R)} })

(* Distribution.cache_key *)
DistributionKeyNoCount(nd, context) ==
    CacheKey(Some(nd.function), Some(nd.args), Some(SortedItems(nd.kwargs)), NoneV, NoneV)

DistributionKey(nd, context) ==
    CacheKey(Some(nd.function), Some(nd.args), Some(SortedItems(nd.kwargs)),
             Some(context.sample_count), NoneV)

(* Leaving the `with` block the resolution is in. *)
Leave(R) == [R EXCEPT !.M = Context__exit__(R.M, Main)]

(* Mixture.cache_key inside its `with Context() as context` *)
MixtureKey(H, nd, R, context) ==
    The({ [R |-> Leave(ks.R),
           key |-> CacheKey(NoneV, NoneV, NoneV, Some(context.sample_count), Some(ks.keys)),
           ok |-> ks.ok]
          : ks \in {MixtureNestedKeys(H, nd.values, 1, R, <<>>)} })

(* Operation.cache_key *)
OperationKey(H, op, R) ==
    The({ IF ~a.ok THEN a
          ELSE The({ [R |-> b.R,
                      key |-> CacheKey(Some(op.function), NoneV, NoneV, NoneV,
                                       Some(<<a.key, b.key>>)),
                      ok |-> b.ok]
                     : b \in {cache_key(H, op.other, a.R)} })
          : a \in {cache_key(H, op.this, R)} })

(* node.cache_key, evaluated in state R: [R, key, ok]; ok is FALSE when   *)
(* the evaluation raises.  Every `with Context() as context` enters and    *)
(* leaves a scope.                                                         *)
cache_key(H, n, R) ==
    LET nd == H[n]
    IN  CASE nd.kind = "Distribution" ->
                The({ [R |-> Leave([R EXCEPT !.M = e.M]),
                       key |-> DistributionKey(nd, e.ret), ok |-> TRUE]
                      : e \in {Context__enter__(R.M, Main, NoKwargs)} })
          [] nd.kind = "Mixture" ->
                The({ MixtureKey(H, nd, [R EXCEPT !.M = e.M], e.ret)
                      : e \in {Context__enter__(R.M, Main, NoKwargs)} })
          [] nd.kind = "Value" /\ nd.value.tag = "node" -> cache_key(H, nd.value.node, R)
          [] nd.kind = "Value" /\ nd.value.tag = "op" -> OperationKey(H, nd.value, R)
          [] OTHER -> [R |-> R, key |-> RawKey(nd.value), ok |-> TRUE]

---------------------------------------------------------------------------
(* Resolution (tree.py _resolve methods).                                  *)

(* What a resolution yields.  An array has an identity, a length and the   *)
(* identities of the arrays it was concatenated from; `sc` is history: the *)
(* sample_count in force when the array was made.                          *)
ResVal(tag, id, len, sc, parts) ==
    [tag |-> tag, id |-> id, len |-> len, sc |-> sc, parts |-> parts]

ArrayVal(id, len, sc, parts) == ResVal("array", id, len, sc, parts)

ScalarVal == ResVal("scalar", 0, 0, 0, <<>>)

EmptyVal == ResVal("empty", 0, 0, 0, <<>>)

ErrorVal == ResVal("error", 0, 0, 0, <<>>)

(* A cache dict: entries in insertion order. *)
CacheHas(cache, key) == \E i \in DOMAIN cache : cache[i].key = key

CacheGet(cache, key) == cache[CHOOSE i \in DOMAIN cache : cache[i].key = key].value

CachePut(cache, key, v) ==
    IF CacheHas(cache, key)
    THEN [i \in DOMAIN cache |-> IF cache[i].key = key THEN [key |-> key, value |-> v]
                                 ELSE cache[i]]
    ELSE Append(cache, [key |-> key, value |-> v])

(* context.cache[key] = value *)
StoreNothing(R, context, key, v) == R

Store(R, context, key, v) ==
    [R EXCEPT !.M.caches[context.cache] = CachePut(@, key, v)]

\* self.function(args..., size=size, kwargs...) of a sampler that honours size
Sampled(R, size) ==
    [R |-> [R EXCEPT !.nextArr = @ + 1, !.calls = @ + 1],
     val |-> ArrayVal(R.nextArr, size, R.M.current[Main].sample_count, <<>>)]

(* the exception a sampling function raises, as the caller receives it *)
SamplerError == ResVal("error", 1, 0, 0, <<>>)

(* the sampling functions that raise when called *)
Raising == {"broken"}

\* self.function(args..., size=size, kwargs...): an array, or the exception
\* of a function that raises
CallSampler(nd, R, size) ==
    IF nd.function \in Raising
    THEN [R |-> [R EXCEPT !.calls = @ + 1], val |-> SamplerError]
    ELSE Sampled(R, size)

(* Mixture._sample, the allocation: sample_count // k each, one more for   *)
(* the first sample_count % k of them.                                     *)
SampleCountsNoRemainder(sample_count, k) == [i \in 1..k |-> sample_count \div k]

SampleCounts(sample_count, k) ==
    LET remainder == sample_count % k
    IN  [i \in 1..k |-> (sample_count \div k) + (IF i - 1 < remainder THEN 1 ELSE 0)]

(* random.sample(sample_counts, len(sample_counts)): the list in the order *)
(* a permutation p of its positions gives.                                 *)
Shuffled(counts, p) == [i \in DOMAIN counts |-> counts[p[i]]]

ShuffleOrders(k) == {p \in [1..k -> 1..k] : \A i, j \in 1..k : p[i] = p[j] => i = j}

(* every list the shuffle may return *)
Shuffles(counts) == {Shuffled(counts, p) : p \in ShuffleOrders(Len(counts))}

(* np.concatenate(samples): a new array; arrays only *)
Concatenate(R, samples) ==
    IF \E i \in DOMAIN samples : samples[i].tag # "array" THEN [R |-> R, val |-> ErrorVal]
    ELSE LET RECURSIVE total(_)
             total(i) == IF i = 0 THEN 0 ELSE samples[i].len + total(i - 1)
         IN  [R |-> [R EXCEPT !.nextArr = @ + 1],
              val |-> ArrayVal(R.nextArr, total(Len(samples)),
                               R.M.current[Main].sample_count,
                               [i \in DOMAIN samples |-> samples[i].id])]

(* the operators of one operand *)
UnaryFunctions == {"neg", "pos", "abs"}

(* function(this) when other is _empty, function(this, other) otherwise,   *)
(* of an operator on resolved operands: a TypeError when the operator      *)
(* takes another number of operands or meets _empty (== and != excepted:   *)
(* they compare anything), elementwise on arrays (a new array), a scalar   *)
(* on scalars.                                                             *)
Apply(R, function, this, other) ==
    LET operands == IF other.tag = "empty" THEN <<this>> ELSE <<this, other>>
        arrays == {i \in DOMAIN operands : operands[i].tag = "array"}
        lens == {operands[i].len : i \in arrays}
    IN  IF \E i \in DOMAIN operands : operands[i].tag = "error"
        THEN [R |-> R, val |-> ErrorVal]
        ELSE IF (other.tag = "empty") # (function \in UnaryFunctions)
        THEN [R |-> R, val |-> ErrorVal]
        ELSE IF this.tag = "empty" /\ function \notin {"eq", "ne"}
        THEN [R |-> R, val |-> ErrorVal]
        ELSE IF arrays = {} THEN [R |-> R, val |-> ScalarVal]
        ELSE IF Cardinality(lens \ {1}) > 1 THEN [R |-> R, val |-> ErrorVal]
        ELSE [R |-> [R EXCEPT !.nextArr = @ + 1],
              val |-> ArrayVal(R.nextArr, Max(lens), R.M.current[Main].sample_count, <<>>)]

(* A resolution draws at random (the shuffles of the Mixtures it samples): *)
(* Resolve and its parts yield the set of the outcomes [R, val] it can     *)
(* have from state R.                                                      *)
RECURSIVE Resolve(_, _, _)

RECURSIVE MixtureSampleLoop(_, _, _, _, _, _)

(* the value resolved in the scope Mixture._sample itself runs in *)
ResolveUnderSameScope(H, n, R, sample_count) == Resolve(H, n, R)

(* one turn of the for loop of Mixture._sample: the i-th value is resolved *)
(* inside `with Context(sample_count=counts[i])`                           *)
ResolveUnder(H, n, R, sample_count) ==
    UNION { { [R |-> Leave(r.R), val |-> r.val]
              : r \in Resolve(H, n, [R EXCEPT !.M = e.M]) }
            : e \in {Context__enter__(R.M, Main, Kwargs(Some(sample_count), NoneV, NoneV))} }

(* the for loop of Mixture._sample, from the i-th value on *)
MixtureSampleLoop(H, values, counts, i, R, samples) ==
    IF i > Len(values) THEN {[R |-> R, samples |-> samples, ok |-> TRUE, raised |-> EmptyVal]}
    ELSE UNION { IF r.val.tag = "error"
                 THEN {[R |-> r.R, samples |-> samples, ok |-> FALSE, raised |-> r.val]}
                 ELSE MixtureSampleLoop(H, values, counts, i + 1, r.R,
                                        Append(samples, r.val))
                 : r \in ResolveUnder(H, values[i], R, counts[i]) }

\* Mixture._sample of the values of Mixture n
Mixture_sample(H, n, R) ==
    UNION { UNION { { IF loop.ok THEN Concatenate(loop.R, loop.samples)
                      ELSE [R |-> loop.R, val |-> loop.raised]
                      : loop \in MixtureSampleLoop(H, H[n].values, counts, 1,
                                                   Leave([R EXCEPT !.M = e.M]), <<>>) }
                    : counts \in Shuffles(SampleCounts(e.ret.sample_count,
                                                     Len(H[n].values))) }
            : e \in {Context__enter__(R.M, Main, NoKwargs)} }

(* a store of whatever came of the sampling, an exception too *)
SampleAndStoreAnyOutcome(H, n, R, context, key) ==
    { [R |-> Leave(Store(r.R, context, key, r.val)), val |-> r.val]
      : r \in IF H[n].kind = "Distribution" THEN {CallSampler(H[n], R, context.sample_count)}
              ELSE Mixture_sample(H, n, R) }

(* Distribution._resolve and Mixture._resolve after the cache miss *)
SampleAndStore(H, n, R, context, key) ==
    { IF r.val.tag = "error" THEN [R |-> Leave(r.R), val |-> r.val]
      ELSE [R |-> Leave(Store(r.R, context, key, r.val)), val |-> r.val]
      : r \in IF H[n].kind = "Distribution" THEN {CallSampler(H[n], R, context.sample_count)}
              ELSE Mixture_sample(H, n, R) }

(* a resolution that samples and stores without a look into the cache *)
ResolveStochasticNoLookup(H, n, R, context) ==
    UNION { IF ~k.ok THEN {[R |-> Leave(k.R), val |-> ErrorVal]}
            ELSE SampleAndStore(H, n, k.R, context, k.key)
            : k \in {cache_key(H, n, R)} }

(* Distribution._resolve and Mixture._resolve inside their                 *)
(* `with Context() as context`                                             *)
ResolveStochastic(H, n, R, context) ==
    UNION { IF ~k.ok THEN {[R |-> Leave(k.R), val |-> ErrorVal]}
            ELSE IF CacheHas(k.R.M.caches[context.cache], k.key)
            THEN {[R |-> Leave(k.R),
                   val |-> CacheGet(k.R.M.caches[context.cache], k.key)]}
            ELSE SampleAndStore(H, n, k.R, context, k.key)
            : k \in {cache_key(H, n, R)} }

(* Operation._resolve *)
ResolveOperation(H, op, R) ==
    UNION { IF a.val.tag = "error" THEN {a}
            ELSE { IF b.val.tag = "error" THEN b
                   ELSE Apply(b.R, op.function, a.val, b.val)
                   : b \in Resolve(H, op.other, a.R) }
            : a \in Resolve(H, op.this, R) }

(* ~node: node._resolve() from state R *)
Resolve(H, n, R) ==
    LET nd == H[n]
    IN  CASE nd.kind \in {"Distribution", "Mixture"} ->
                UNION { ResolveStochastic(H, n, [R EXCEPT !.M = e.M], e.ret)
                        : e \in {Context__enter__(R.M, Main, NoKwargs)} }
          [] nd.kind = "Value" /\ nd.value.tag = "node" -> Resolve(H, nd.value.node, R)
          [] nd.kind = "Value" /\ nd.value.tag = "op" -> ResolveOperation(H, nd.value, R)
          [] nd.kind = "Value" /\ nd.value.tag = "num" -> {[R |-> R, val |-> ScalarVal]}
          [] OTHER -> {[R |-> R, val |-> EmptyVal]}

---------------------------------------------------------------------------
(* SpecCtx: two flows use the context API.                                 *)

TheMachine == Machine(current, managers, caches)

(* What get_current() yields for flow f in the present state: the context  *)
(* already active, or the default one made on first use.                   *)
ActiveContext(f) == getcontext(TheMachine, f).ret

ScopeKwargs ==
    { NoKwargs,
      Kwargs(Some(2), NoneV, NoneV),
      Kwargs(Some(3), Some("never"), NoneV) }

NoExit == [how |-> "none", expected |-> Unset]

SetMachine(M) ==
    /\ current' = M.current
    /\ managers' = M.managers
    /\ caches' = M.caches

InitCtxFresh ==
    /\ current = [f \in Flows |-> Unset]
    /\ caches = <<>>

(* Tasks started by one parent begin with a copy of the parent's context:  *)
(* both see the SwungdashContext the parent had installed.                 *)
InitCtxInherited ==
    /\ current = [f \in Flows |-> SwungdashContext(ParentId, 0, 1, "constant", DEFAULT_SAMPLE_COUNT)]
    /\ caches = << <<>> >>

InitCtx ==
    /\ InitCtxFresh \/ InitCtxInherited
    /\ managers = [f \in Flows |-> <<>>]
    /\ unwinding = [f \in Flows |-> FALSE]
    /\ entered = [f \in Flows |-> <<>>]
    /\ lastExit = [f \in Flows |-> NoExit]
    /\ nextArr = 1
    /\ log = <<>>
    /\ nodes = <<>>
    /\ runs = <<>>

GetCurrent(f) ==
    /\ UNCHANGED <<nextArr, log, nodes, runs>>
    /\ ~unwinding[f]
    /\ SetMachine(getcontext(TheMachine, f).M)
    /\ lastExit' = [lastExit EXCEPT ![f] = NoExit]
    /\ UNCHANGED <<unwinding, entered>>

Enter(f, kw) ==
    /\ UNCHANGED <<nextArr, log, nodes, runs>>
    /\ ~unwinding[f]
    /\ Len(managers[f]) < MaxDepth
    /\ SetMachine(Context__enter__(TheMachine, f, kw).M)
    /\ entered' = [entered EXCEPT ![f] = Append(@, ActiveContext(f))]
    /\ lastExit' = [lastExit EXCEPT ![f] = NoExit]
    /\ UNCHANGED unwinding

Exit(f) ==
    /\ UNCHANGED <<nextArr, log, nodes, runs>>
    /\ ~unwinding[f]
    /\ managers[f] # <<>>
    /\ SetMachine(Context__exit__(TheMachine, f))
    /\ entered' = [entered EXCEPT ![f] = Front(@)]
    /\ lastExit' = [lastExit EXCEPT ![f] = [how |-> "return", expected |-> Last(entered[f])]]
    /\ UNCHANGED unwinding

(* The body of the innermost `with` block raises. *)
Raise(f) ==
    /\ UNCHANGED <<nextArr, log, nodes, runs>>
    /\ ~unwinding[f]
    /\ managers[f] # <<>>
    /\ unwinding' = [unwinding EXCEPT ![f] = TRUE]
    /\ lastExit' = [lastExit EXCEPT ![f] = NoExit]
    /\ UNCHANGED <<current, managers, caches, entered>>

(* The exception leaves the innermost `with` block: __exit__(type, value, tb) *)
ExitByException(f) ==
    /\ UNCHANGED <<nextArr, log, nodes, runs>>
    /\ unwinding[f]
    /\ managers[f] # <<>>
    /\ SetMachine(Context__exit__(TheMachine, f))
    /\ entered' = [entered EXCEPT ![f] = Front(@)]
    /\ lastExit' = [lastExit EXCEPT ![f] = [how |-> "exception", expected |-> Last(entered[f])]]
    /\ UNCHANGED unwinding

(* An except clause around the blocks left so far handles the exception. *)
Catch(f) ==
    /\ UNCHANGED <<nextArr, log, nodes, runs>>
    /\ unwinding[f]
    /\ unwinding' = [unwinding EXCEPT ![f] = FALSE]
    /\ lastExit' = [lastExit EXCEPT ![f] = NoExit]
    /\ UNCHANGED <<current, managers, caches, entered>>

NextCtx ==
    \E f \in Flows :
        \/ GetCurrent(f)
        \/ \E kw \in ScopeKwargs : Enter(f, kw)
        \/ Exit(f)
        \/ Raise(f)
        \/ ExitByException(f)
        \/ Catch(f)

SpecCtx == InitCtx /\ [][NextCtx]_vars

---------------------------------------------------------------------------
(* SpecResolve: one flow resolves stochastic nodes of a tree built before, *)
(* at the top level and inside `with Context(...)` blocks of its own.      *)

(* normal(0, 1) built twice, uniform(low=1, high=2), mixtures of two and  *)
(* of three of them, and a mixture whose one component is a mixture        *)
ResHeap ==
    << Distribution("normal", <<0, 1>>, <<>>, NoneV),
       Distribution("normal", <<0, 1>>, <<>>, NoneV),
       Distribution("uniform", <<>>, << <<"low", 1>>, <<"high", 2>> >>, NoneV),
       Mixture(<<1, 3>>, NoneV),
       Mixture(<<1, 2, 3>>, NoneV),
       Mixture(<<4>>, NoneV) >>

ResRoots == {n \in DOMAIN ResHeap : ResHeap[n].kind = "Mixture"} \cup {1}

(* The scopes the flow opens: a smaller budget, a still different budget   *)
(* with another cache rule, and a dict of the caller's own as the cache.   *)
ScopeSmall == Kwargs(Some(2), NoneV, NoneV)

ScopeOdd == Kwargs(Some(3), Some("never"), NoneV)

\* the caller's dict is the first dict made: caches[1]
ScopeOwnCache == Kwargs(NoneV, NoneV, Some(1))

(* the scopes the flow opens at its top level *)
OuterScopes == {ScopeSmall, ScopeOwnCache}

(* <<outer, inner>>: the nestings of two scopes the flow uses *)
NestedScopes == { <<ScopeSmall, ScopeOdd>> }

InitResolve ==
    /\ current = [f \in Flows |-> Unset]
    /\ caches = << <<>> >>
    /\ managers = [f \in Flows |-> <<>>]
    /\ unwinding = [f \in Flows |-> FALSE]
    /\ entered = [f \in Flows |-> <<>>]
    /\ lastExit = [f \in Flows |-> NoExit]
    /\ nextArr = 1
    /\ log = <<>>
    /\ nodes = ResHeap
    /\ runs = <<>>

UserEnter(kw) ==
    /\ \/ managers[Main] = <<>> /\ kw \in OuterScopes
       \/ /\ Len(managers[Main]) = 1
          /\ <<managers[Main][1].kwargs, kw>> \in NestedScopes
    /\ Enter(Main, kw)

UserExit == Exit(Main)

(* ~nodes[n] at the flow's present position *)
ResolveRoot(n) ==
    /\ Len(log) < MaxResolves
    /\ \E r \in Resolve(nodes, n, ResState(TheMachine, nextArr, 0)) :
           /\ SetMachine(r.R.M)
           /\ nextArr' = r.R.nextArr
           /\ log' = Append(log, [node |-> n, context |-> ActiveContext(Main),
                                  val |-> r.val, calls |-> r.R.calls])
    /\ UNCHANGED <<unwinding, entered, lastExit, nodes, runs>>

NextResolve ==
    \/ \E kw \in {ScopeSmall, ScopeOdd, ScopeOwnCache} : UserEnter(kw)
    \/ UserExit
    \/ \E n \in ResRoots : ResolveRoot(n)

SpecResolve == InitResolve /\ [][NextResolve]_vars

---------------------------------------------------------------------------
(* SpecShare: as SpecResolve, on a tree with parts built twice over and    *)
(* with a sampling function that raises.                                   *)

(* uniform(low=1, high=2) and uniform(high=2, low=1); normal(0, 1) twice; *)
(* a Mixture of the first of each and one of the second of each;           *)
(* broken(0, 1), whose function raises; a Mixture of a normal and it       *)
ShareHeap ==
    << Distribution("uniform", <<>>, << <<"low", 1>>, <<"high", 2>> >>, NoneV),
       Distribution("uniform", <<>>, << <<"high", 2>>, <<"low", 1>> >>, NoneV),
       Distribution("normal", <<0, 1>>, <<>>, NoneV),
       Distribution("normal", <<0, 1>>, <<>>, NoneV),
       Mixture(<<1, 3>>, NoneV),
       Mixture(<<2, 4>>, NoneV),
       Distribution("broken", <<0, 1>>, <<>>, NoneV),
       Mixture(<<3, 7>>, NoneV) >>

ShareRoots == {1, 2, 5, 6, 7, 8}

InitShare ==
    /\ current = [f \in Flows |-> Unset]
    /\ caches = << <<>> >>
    /\ managers = [f \in Flows |-> <<>>]
    /\ unwinding = [f \in Flows |-> FALSE]
    /\ entered = [f \in Flows |-> <<>>]
    /\ lastExit = [f \in Flows |-> NoExit]
    /\ nextArr = 1
    /\ log = <<>>
    /\ nodes = ShareHeap
    /\ runs = <<>>

NextShare ==
    \/ UserEnter(ScopeSmall)
    \/ UserExit
    \/ \E n \in ShareRoots : ResolveRoot(n)

SpecShare == InitShare /\ [][NextShare]_vars

---------------------------------------------------------------------------
(* Building a tree (Value._operation and the constructors), its constancy  *)
(* analysis and its listing (tree.py _mark_constancy, mark_constancy,      *)
(* _bfs, bfs, as_model).  Objects live in the heap `nodes`; an object is   *)
(* its index there, so `is` is equality of indices.                        *)

(* _tracer = Value(0, name="x"), made when the module is loaded: the first *)
(* object of the heap                                                      *)
_tracer == 1

TracerObject == Value(Num(0), NoneV, Some("x"))

(* an Operation operand that is the _empty sentinel itself, no Value *)
EmptyOperand == 0

Operand(o) == IF o = EmptyOperand THEN _empty ELSE Ref(o)

(* a new object: the heap with it, and the reference to it *)
Alloc(H, nd) == [H |-> Append(H, nd), ref |-> Ref(Len(H) + 1), ok |-> TRUE]

Failed(H) == [H |-> H, ref |-> _empty, ok |-> FALSE]

(* copy(obj) returning obj itself *)
copyAlias(H, n) == [H |-> H, ref |-> Ref(n), ok |-> TRUE]

(* copy.copy(obj): a new object with the same attributes *)
copy(H, n) == Alloc(H, H[n])

(* _operation without the assertion of its reverse form *)
Value_operationNoAssert(H, self, function, other, reverse) ==
    The({ IF reverse
          THEN Alloc(w.H, Value(Operation(function, w.ref.node, self), NoneV, NoneV))
          ELSE Alloc(w.H, Value(Operation(function, self, w.ref.node), NoneV, NoneV))
        : w \in { IF other.tag = "node"
                  THEN [H |-> H, ref |-> other, ok |-> TRUE]
                  ELSE Alloc(H, Value(other, NoneV, NoneV)) } })

(* self._operation(function, other, reverse): other is a reference to a    *)
(* Resolveable, or a number or _empty that is first wrapped in a Value.    *)
(* In the reverse form other.value is read and must not be _empty.         *)
Value_operation(H, self, function, other, reverse) ==
    The({ IF reverse
          THEN IF w.H[w.ref.node].value \in {_empty, NoAttr}
               THEN Failed(w.H)
               ELSE Alloc(w.H, Value(Operation(function, w.ref.node, self), NoneV, NoneV))
          ELSE Alloc(w.H, Value(Operation(function, self, w.ref.node), NoneV, NoneV))
        : w \in { IF other.tag = "node"
                  THEN [H |-> H, ref |-> other, ok |-> TRUE]
                  ELSE Alloc(H, Value(other, NoneV, NoneV)) } })

(* The body of a model, as the expression it evaluates on its argument x. *)
Arg == <<"x">>

Number(c) == <<"num", c>>

NewValue(t, constant) == <<"Value", t, constant>>

NewDistribution(function, args) == <<"Distribution", function, args>>

NewMixture(ts) == <<"Mixture", ts>>

Binary(function, a, b) == <<"binary", function, a, b>>

Reflected(function, c, b) == <<"reflected", function, c, b>>

Unary(function, a) == <<"unary", function, a>>

(* a <op> a for one object a: the expression a is evaluated once *)
Twice(function, a) == <<"twice", function, a>>

(* the _empty sentinel, written out *)
Sentinel == <<"empty">>

(* b.__radd__(a) and the like, called outright: a is any expression *)
ReflectedOn(function, a, b) == <<"reflectedOn", function, a, b>>

RECURSIVE Build(_, _, _), BuildAll(_, _, _, _, _)

(* the components of a Mixture's list, evaluated left to right *)
BuildAll(ts, i, x, H, acc) ==
    IF i > Len(ts) THEN [H |-> H, ids |-> acc]
    ELSE The({ BuildAll(ts, i + 1, x, b.H, Append(acc, b.ref.node))
               : b \in {Build(ts[i], x, H)} })

(* Evaluating the expression t with the argument x: the heap afterwards,   *)
(* what the expression evaluates to (a reference, a plain number or        *)
(* _empty), and ok: FALSE when the evaluation raised.                      *)
Build(t, x, H) ==
    CASE t[1] = "x" -> [H |-> H, ref |-> Ref(x), ok |-> TRUE]
      [] t[1] = "num" -> [H |-> H, ref |-> Num(t[2]), ok |-> TRUE]
      [] t[1] = "empty" -> [H |-> H, ref |-> _empty, ok |-> TRUE]
      [] t[1] = "Value" ->
            The({ IF ~b.ok THEN b ELSE Alloc(b.H, Value(b.ref, t[3], NoneV))
                  : b \in {Build(t[2], x, H)} })
      [] t[1] = "Distribution" -> Alloc(H, Distribution(t[2], t[3], <<>>, NoneV))
      [] t[1] = "Mixture" ->
            The({ Alloc(b.H, Mixture(b.ids, NoneV)) : b \in {BuildAll(t[2], 1, x, H, <<>>)} })
      [] t[1] = "binary" ->
            The({ IF ~a.ok THEN a
                  ELSE The({ IF ~b.ok THEN b
                             ELSE Value_operation(b.H, a.ref.node, t[2], b.ref, FALSE)
                             : b \in {Build(t[4], x, a.H)} })
                  : a \in {Build(t[3], x, H)} })
      [] t[1] = "reflected" ->
            The({ IF ~b.ok THEN b
                  ELSE Value_operation(b.H, b.ref.node, t[2], Num(t[3]), TRUE)
                  : b \in {Build(t[4], x, H)} })
      [] t[1] = "reflectedOn" ->
            The({ IF ~b.ok THEN b
                  ELSE The({ IF ~a.ok THEN a
                             ELSE Value_operation(a.H, b.ref.node, t[2], a.ref, TRUE)
                             : a \in {Build(t[3], x, b.H)} })
                  : b \in {Build(t[4], x, H)} })
      [] t[1] = "unary" ->
            The({ IF ~a.ok THEN a
                  ELSE Value_operation(a.H, a.ref.node, t[2], _empty, FALSE)
                  : a \in {Build(t[3], x, H)} })
      [] t[1] = "twice" ->
            The({ IF ~a.ok THEN a
                  ELSE Value_operation(a.H, a.ref.node, t[2], a.ref, FALSE)
                  : a \in {Build(t[3], x, H)} })

(* node.constant = c *)
SetConstant(H, n, c) ==
    [H EXCEPT ![n] = [@ EXCEPT !.constant = Some(c),
                               !.writes = @ + 1,
                               !.rewritten = @ \/ H[n].constant \notin {NoneV, Some(c)}]]

(* no constant counts as set *)
AlreadySetNever(H, n) == FALSE

(* tree.constant is not None *)
AlreadySet(H, n) == H[n].constant # NoneV

RECURSIVE _mark_constancy(_, _), MarkedChild(_, _), MarkedComponents(_, _, _)

(* child.constant = _mark_constancy(child) *)
MarkedChild(H, n) ==
    The({ SetConstant(r.H, n, r.ret) : r \in {_mark_constancy(H, Ref(n))} })

(* for value in tree.values: value.constant = _mark_constancy(value) *)
MarkedComponents(H, values, i) ==
    IF i > Len(values) THEN H
    ELSE The({ MarkedComponents(h, values, i + 1) : h \in {MarkedChild(H, values[i])} })

(* _mark_constancy(tree): the heap afterwards and the boolean returned *)
_mark_constancy(H, tree) ==
    IF tree.tag = "node" /\ tree.node = _tracer THEN [H |-> H, ret |-> FALSE]
    ELSE IF tree.tag # "node" THEN [H |-> H, ret |-> TRUE]
    ELSE IF AlreadySet(H, tree.node)
         THEN [H |-> H, ret |-> H[tree.node].constant[1]]
    ELSE IF H[tree.node].kind = "Mixture"
         THEN The({ [H |-> h,
                     ret |-> \A i \in DOMAIN H[tree.node].values :
                                 h[H[tree.node].values[i]].constant = Some(TRUE)]
                    : h \in {MarkedComponents(H, H[tree.node].values, 1)} })
    ELSE IF H[tree.node].value.tag = "op"
         THEN The({ IF H[tree.node].value.other = EmptyOperand
                    THEN [H |-> a, ret |-> a[H[tree.node].value.this].constant[1]]
                    ELSE The({ [H |-> b,
                                ret |-> /\ b[H[tree.node].value.this].constant[1]
                                        /\ b[H[tree.node].value.other].constant[1]]
                               : b \in {MarkedChild(a, H[tree.node].value.other)} })
                    : a \in {MarkedChild(H, H[tree.node].value.this)} })
    ELSE IF H[tree.node].value.tag = "node"
         THEN The({ [H |-> a, ret |-> a[H[tree.node].value.node].constant[1]]
                    : a \in {MarkedChild(H, H[tree.node].value.node)} })
    ELSE [H |-> H, ret |-> TRUE]

(* mark_constancy(tree): the heap afterwards (the tree itself is returned) *)
mark_constancy(H, tree) ==
    IF tree.tag # "node" THEN H ELSE MarkedChild(H, tree.node)

(* the listing of an Operation with its operands' listings exchanged *)
OperationPartsOtherFirst(thisParts, otherParts) == otherParts \o thisParts

(* _bfs(tree.this) + _bfs(tree.other) *)
OperationParts(thisParts, otherParts) == thisParts \o otherParts

RECURSIVE _bfs(_, _), BfsNested(_, _, _)

(* chain.from_iterable([_bfs(value_) for value_ in tree.values]) *)
BfsNested(H, values, i) ==
    IF i > Len(values) THEN <<>>
    ELSE _bfs(H, Ref(values[i])) \o BfsNested(H, values, i + 1)

(* _bfs(tree): the list of objects, tree being a reference, an Operation,  *)
(* a number or _empty                                                      *)
_bfs(H, tree) ==
    IF tree.tag = "node"
    THEN CASE H[tree.node].kind = "Distribution" -> <<tree.node>>
           [] H[tree.node].kind = "Mixture" ->
                <<tree.node>> \o BfsNested(H, H[tree.node].values, 1)
           [] H[tree.node].kind = "Value" ->
                <<tree.node>> \o _bfs(H, H[tree.node].value)
    ELSE IF tree.tag = "op"
         THEN OperationParts(_bfs(H, Operand(tree.this)), _bfs(H, Operand(tree.other)))
    ELSE <<>>

(* bfs(model): tracer = copy(_tracer); tree = model(_tracer);              *)
(* tree = mark_constancy(tree); return _bfs(tree), tracer.  History: the   *)
(* constant every listed object had before the analysis, and how often the *)
(* analysis assigned it.                                                   *)
bfs(H, model) ==
    The({ The({ The({ The({ [H |-> h, passed |-> _tracer, tracer |-> c.ref.node,
                             tree |-> t.ref, parts |-> parts,
                             before |-> [k \in DOMAIN parts |-> t.H[parts[k]].constant],
                             writes |-> [k \in DOMAIN parts |->
                                            h[parts[k]].writes - t.H[parts[k]].writes]]
                            : parts \in {_bfs(h, t.ref)} })
                      : h \in {mark_constancy(t.H, t.ref)} })
                : t \in {Build(model, _tracer, c.H)} })
          : c \in {copy(H, _tracer)} })

(* as_model(part, tracer)(x): tracer.value = x; return part *)
as_model(H, tracer, x) == [H EXCEPT ![tracer].value = Num(x)]

---------------------------------------------------------------------------
(* SpecTree: models are traced by bfs, and the tracers bfs returned are    *)
(* rebound as the models made by as_model do.                              *)

MaxRuns == 2

(* the numbers a model made by as_model is called with *)
TracerValues == {1, 2}

(* test_tree.py: weight * x ** 2 + bias / 5 with weight a mixture of two   *)
(* normals and bias a uniform (parameters in tenths)                       *)
TestModel ==
    Binary("add",
           Binary("mul",
                  NewMixture(<< NewDistribution("normal", <<20, 1>>),
                                NewDistribution("normal", <<0, 1>>) >>),
                  Binary("pow", Arg, Number(2))),
           Binary("truediv", NewDistribution("uniform", <<1000, 2000>>), Number(5)))

(* The models traced: the test's; x itself; a plain number; Value(1);      *)
(* Value(Value(1), constant=True); -x; 1 - x; a Mixture of x and a normal; *)
(* Value(x); x * x; Value(Value(1) + 2, constant=False);                   *)
(* Value(Mixture([normal])); Value(x, constant=True); abs(Value(3));       *)
(* s * s for s = Value(1) + x.                                             *)
Models ==
    << TestModel,
       Arg,
       Number(5),
       NewValue(Number(1), NoneV),
       NewValue(NewValue(Number(1), NoneV), Some(TRUE)),
       Unary("neg", Arg),
       Reflected("sub", 1, Arg),
       NewMixture(<< Arg, NewDistribution("normal", <<0, 1>>) >>),
       NewValue(Arg, NoneV),
       Binary("mul", Arg, Arg),
       NewValue(Binary("add", NewValue(Number(1), NoneV), Number(2)), Some(FALSE)),
       NewValue(NewMixture(<< NewDistribution("normal", <<0, 1>>) >>), NoneV),
       NewValue(Arg, Some(TRUE)),
       Unary("abs", NewValue(Number(3), NoneV)),
       Twice("mul", Binary("add", NewValue(Number(1), NoneV), Arg)) >>

(* the models that pass constant= to no constructor *)
ModelsWithoutDeclaration == {1, 2, 3, 4, 6, 7, 8, 9, 10, 12, 14, 15}

InitTree ==
    /\ current = [f \in Flows |-> Unset]
    /\ caches = <<>>
    /\ managers = [f \in Flows |-> <<>>]
    /\ unwinding = [f \in Flows |-> FALSE]
    /\ entered = [f \in Flows |-> <<>>]
    /\ lastExit = [f \in Flows |-> NoExit]
    /\ nextArr = 1
    /\ log = <<>>
    /\ nodes = << TracerObject >>
    /\ runs = <<>>

(* parts, tracer = bfs(model) *)
Bfs(m) ==
    /\ Len(runs) < MaxRuns
    /\ \E r \in {bfs(nodes, Models[m])} :
           /\ nodes' = r.H
           /\ runs' = Append(runs, [model |-> m, passed |-> r.passed,
                                    tracer |-> r.tracer, tree |-> r.tree,
                                    parts |-> r.parts, before |-> r.before,
                                    writes |-> r.writes])
    /\ UNCHANGED <<current, managers, unwinding, caches, entered, lastExit, nextArr, log>>

(* as_model(part, tracer)(x) for the tracer a run returned *)
CallAsModel(i, x) ==
    /\ i \in DOMAIN runs
    /\ nodes' = as_model(nodes, runs[i].tracer, x)
    /\ UNCHANGED <<current, managers, unwinding, caches, entered, lastExit, nextArr, log, runs>>

NextTree ==
    \/ \E m \in DOMAIN Models : Bfs(m)
    \/ \E i \in 1..MaxRuns, x \in TracerValues : CallAsModel(i, x)

SpecTree == InitTree /\ [][NextTree]_vars

---------------------------------------------------------------------------
(* SpecEmpty: expressions with the _empty sentinel in them are built, and  *)
(* those that were built are resolved.                                     *)

(* Value(_empty); -Value(_empty); Value(_empty) == 5; Value(_empty) + 5;   *)
(* Value(5).__radd__(); Value(5).__rsub__(Value(_empty));                  *)
(* x.__rpow__(_empty); 1 - Value(5); -Value(5)                             *)
Expressions ==
    << NewValue(Sentinel, NoneV),
       Unary("neg", NewValue(Sentinel, NoneV)),
       Binary("eq", NewValue(Sentinel, NoneV), Number(5)),
       Binary("add", NewValue(Sentinel, NoneV), Number(5)),
       ReflectedOn("add", Sentinel, NewValue(Number(5), NoneV)),
       ReflectedOn("sub", NewValue(Sentinel, NoneV), NewValue(Number(5), NoneV)),
       ReflectedOn("pow", Sentinel, Arg),
       Reflected("sub", 1, NewValue(Number(5), NoneV)),
       Unary("neg", NewValue(Number(5), NoneV)) >>

(* the expressions that apply a reversed operator to an empty left operand *)
ReversedOnEmpty == {5, 6, 7}

InitEmpty ==
    /\ current = [f \in Flows |-> Unset]
    /\ caches = <<>>
    /\ managers = [f \in Flows |-> <<>>]
    /\ unwinding = [f \in Flows |-> FALSE]
    /\ entered = [f \in Flows |-> <<>>]
    /\ lastExit = [f \in Flows |-> NoExit]
    /\ nextArr = 1
    /\ log = <<>>
    /\ nodes = << TracerObject >>
    /\ runs = <<>>

(* the expression is evaluated; first..last are the objects it made *)
Construct(e) ==
    /\ Len(runs) < MaxRuns
    /\ \E r \in {Build(Expressions[e], _tracer, nodes)} :
           /\ nodes' = r.H
           /\ runs' = Append(runs, [expr |-> e, ok |-> r.ok, ref |-> r.ref,
                                    first |-> Len(nodes) + 1, last |-> Len(r.H)])
    /\ UNCHANGED <<current, managers, unwinding, caches, entered, lastExit, nextArr, log>>

(* ~tree for the tree an expression evaluated to *)
ResolveBuilt(i) ==
    /\ i \in DOMAIN runs
    /\ runs[i].ok
    /\ ResolveRoot(runs[i].ref.node)

NextEmpty ==
    \/ \E e \in DOMAIN Expressions : Construct(e)
    \/ \E i \in 1..MaxRuns : ResolveBuilt(i)

SpecEmpty == InitEmpty /\ [][NextEmpty]_vars

---------------------------------------------------------------------------
(* C1: leaving a Context scope, by return or by a propagating exception,   *)
(* makes the flow's active context the very context object that was active *)
(* immediately before the scope was entered.                               *)
C1_ExitRestoresPrevious ==
    \A f \in Flows :
        lastExit[f].how # "none" =>
            /\ current[f] = lastExit[f].expected
            /\ current[f].id = lastExit[f].expected.id

(* C1 witness: a flow has left the inner of two nested scopes by an        *)
(* exception, the outer scope (with an override) still open.               *)
C1_Witness ==
    \E f \in Flows :
        /\ lastExit[f].how = "exception"
        /\ Len(managers[f]) = 1
        /\ managers[f][1].kwargs # NoKwargs
        /\ current[f] = managers[f][1].new_context

(* C2: a context one flow constructs and installs is never active in the   *)
(* other flow, and in one flow the open scopes form a stack whose          *)
(* innermost override decides the active context.                          *)
StackOf(f) ==
    /\ managers[f] # <<>> => current[f] = Last(managers[f]).new_context
    /\ \A i \in DOMAIN managers[f] :
          LET m == managers[f][i]
          IN  /\ \A fld \in {"sample_count", "cache_rule", "cache"} :
                    m.new_context[fld] =
                        IF m.kwargs[fld] # NoneV THEN m.kwargs[fld][1]
                        ELSE m.saved_context[fld]
              /\ i > 1 => m.saved_context = managers[f][i - 1].new_context
              /\ m.new_context.id # m.saved_context.id

C2_FlowLocal ==
    /\ \A f \in Flows : current[f] # Unset => current[f].owner \in {0, f}
    /\ \A f \in Flows : \A i \in DOMAIN managers[f] :
          /\ managers[f][i].new_context.owner = f
          /\ managers[f][i].saved_context.owner \in {0, f}
    /\ \A f, g \in Flows :
          (f # g /\ current[f] # Unset /\ current[f].owner = f) => current[g].id # current[f].id
    /\ \A f \in Flows : StackOf(f)

(* C2 witness: both flows are inside nested scopes at once, with different *)
(* overrides in force.                                                     *)
C2_Witness ==
    /\ Len(managers[1]) = 2
    /\ Len(managers[2]) = 2
    /\ current[1].sample_count # current[2].sample_count
    /\ current[1].sample_count = 3
    /\ managers[1][1].new_context.sample_count = 2

---------------------------------------------------------------------------
(* C3: a stochastic node resolved twice in the same context (the same      *)
(* cache, the same sample_count) yields the identical array both times,    *)
(* and the second resolution invokes no sampling function.                 *)
SameContext(a, b) ==
    /\ a.context.cache = b.context.cache
    /\ a.context.sample_count = b.context.sample_count

C3_SecondResolutionIsCacheHit ==
    \A i, j \in DOMAIN log :
        (i < j /\ log[i].node = log[j].node /\ SameContext(log[i], log[j])) =>
            /\ log[i].val.tag = "array"
            /\ log[j].val = log[i].val
            /\ log[j].calls = 0

(* C3 witness: a Mixture was resolved twice under one budget in one cache, *)
(* the first time by sampling.                                             *)
C3_Witness ==
    \E i, j \in DOMAIN log :
        /\ i < j
        /\ log[i].node = log[j].node
        /\ nodes[log[i].node].kind = "Mixture"
        /\ SameContext(log[i], log[j])
        /\ log[i].calls > 0

(* C4: an array cached under sample_count a is never what a resolution     *)
(* under sample_count b # a returns, though both use one cache: every      *)
(* array returned was made under the budget in force, and every cache      *)
(* entry's key records the budget its array was made under.                *)
C4_CacheKeyEncodesSampleCount ==
    /\ \A j \in DOMAIN log :
          log[j].val.tag = "array" => log[j].val.sc = log[j].context.sample_count
    /\ \A i, j \in DOMAIN log :
          (/\ log[i].node = log[j].node
           /\ log[i].context.cache = log[j].context.cache
           /\ log[i].context.sample_count # log[j].context.sample_count)
              => log[i].val.id # log[j].val.id
    /\ \A c \in DOMAIN caches : \A e \in DOMAIN caches[c] :
          caches[c][e].key.sample_count = Some(caches[c][e].value.sc)

(* C4 witness: one node was resolved under two budgets with the same cache, *)
(* the later resolution in a nested scope.                                 *)
C4_Witness ==
    \E i, j \in DOMAIN log :
        /\ i < j
        /\ log[i].node = log[j].node
        /\ log[i].context.cache = log[j].context.cache
        /\ log[i].context.sample_count = DEFAULT_SAMPLE_COUNT
        /\ log[j].context.sample_count = 2
        /\ managers[Main] # <<>>

(* C5: resolving a Mixture of k components under sample_count n returns an *)
(* array of exactly n elements, also when components are cache hits.       *)
C5_MixtureHasSampleCountElements ==
    \A j \in DOMAIN log :
        nodes[log[j].node].kind = "Mixture" =>
            /\ log[j].val.tag = "array"
            /\ log[j].val.len = log[j].context.sample_count

(* C5 witness: a Mixture of two resolved under a budget of 3, which two    *)
(* does not divide, with only one component sampled anew.                  *)
C5_Witness ==
    \E j \in DOMAIN log :
        /\ nodes[log[j].node].kind = "Mixture"
        /\ Len(nodes[log[j].node].values) = 2
        /\ log[j].context.sample_count = 3
        /\ Len(log[j].val.parts) = 2
        /\ log[j].calls = 1

---------------------------------------------------------------------------
(* C6: bfs(model) calls the model once, with a private copy of the tracer  *)
(* and not with the template _tracer; the tracer bfs returns is that copy, *)
(* so the tracer listed in the tree is the returned one, never _tracer.    *)
C6_ModelGetsReturnedTracer ==
    \A i \in DOMAIN runs :
        /\ runs[i].passed = runs[i].tracer
        /\ runs[i].passed # _tracer
        /\ _tracer \notin Range(runs[i].parts)

(* What the objects of a tree hold, in the order bfs listed them: all that *)
(* a resolution of the tree reads from the Values in it.                   *)
Held(H, parts) == [k \in DOMAIN parts |-> H[parts[k]].value]

DistinctTracers ==
    /\ \A i \in DOMAIN runs : runs[i].tracer # _tracer
    /\ \A i, j \in DOMAIN runs : i # j => runs[i].tracer # runs[j].tracer

(* a step that rebinds the tracer of one run leaves what every other run's *)
(* tree holds as it was                                                    *)
RebindingLeavesOtherTrees ==
    \A i \in DOMAIN runs :
        nodes'[runs[i].tracer].value # nodes[runs[i].tracer].value =>
            \A j \in DOMAIN runs \ {i} :
                Held(nodes', runs[j].parts) = Held(nodes, runs[j].parts)

(* C7: the tracers two runs of bfs return are distinct objects, each other *)
(* than the template _tracer, and rebinding the value of one of them never *)
(* changes what the tree built by the other run resolves from.             *)
C7_RunsHaveSeparateTracers ==
    /\ []DistinctTracers
    /\ [][RebindingLeavesOtherTrees]_vars

(* C7 witness: two runs whose trees both contain the model's argument, the *)
(* tracer returned by the first rebound to another number since.           *)
C7_Witness ==
    /\ Len(runs) >= 2
    /\ runs[1].tracer # runs[2].tracer
    /\ nodes[runs[1].tracer].value = Num(2)
    /\ nodes[runs[2].tracer].value = Num(0)
    /\ runs[1].parts # <<>> /\ runs[2].parts # <<>>
    /\ \E k \in DOMAIN runs[2].parts : nodes[runs[2].parts[k]].name = Some("x")

(* C8: after bfs has run the constancy analysis, every object in the list  *)
(* it returns has constant set to a boolean, none is left None.            *)
C8_EveryListedNodeClassified ==
    \A i \in DOMAIN runs :
        \A k \in DOMAIN runs[i].parts : nodes[runs[i].parts[k]].constant # NoneV

(* the tracer given to the models is among what the object n lists *)
TracerReachable(H, n) == _tracer \in Range(_bfs(H, Ref(n)))

(* C9: the analysis marks an object variable (constant = False) exactly    *)
(* when the tracer is reachable from it, and constant = True otherwise.    *)
C9_VariableIffTracerReachable ==
    \A i \in DOMAIN runs :
        \A k \in DOMAIN runs[i].parts :
            nodes[runs[i].parts[k]].constant
                = Some(~TracerReachable(nodes, runs[i].parts[k]))

(* What the analysis does establish: for the models that declare no        *)
(* constant= themselves every listed object is classified, variable        *)
(* exactly when the tracer is reachable from it; for test_tree.py's model  *)
(* that is the whole sum, the product, x ** 2 and x.                       *)
UndeclaredTreesClassified ==
    \A i \in DOMAIN runs :
        /\ runs[i].model \in ModelsWithoutDeclaration =>
              \A k \in DOMAIN runs[i].parts :
                  nodes[runs[i].parts[k]].constant
                      = Some(~TracerReachable(nodes, runs[i].parts[k]))
        /\ runs[i].model = 1 =>
              [k \in DOMAIN runs[i].parts |-> nodes[runs[i].parts[k]].constant[1]]
                  = <<FALSE, FALSE, TRUE, TRUE, TRUE, FALSE, FALSE, TRUE, TRUE, TRUE, TRUE>>

RECURSIVE PreOrderFrom(_, _, _)

(* The reference listing, by a work list: the first entry is taken off; an *)
(* object is listed, and what it wraps or its components put in front of   *)
(* the rest; an Operation puts its first and then its second operand       *)
(* there; numbers and _empty list nothing.                                 *)
PreOrderFrom(H, todo, acc) ==
    IF todo = <<>> THEN acc
    ELSE IF Head(todo).tag = "node"
         THEN CASE H[Head(todo).node].kind = "Distribution" ->
                     PreOrderFrom(H, Tail(todo), Append(acc, Head(todo).node))
                [] H[Head(todo).node].kind = "Mixture" ->
                     PreOrderFrom(H,
                                  [c \in DOMAIN H[Head(todo).node].values |->
                                        Ref(H[Head(todo).node].values[c])] \o Tail(todo),
                                  Append(acc, Head(todo).node))
                [] H[Head(todo).node].kind = "Value" ->
                     PreOrderFrom(H, <<H[Head(todo).node].value>> \o Tail(todo),
                                  Append(acc, Head(todo).node))
    ELSE IF Head(todo).tag = "op"
         THEN PreOrderFrom(H, <<Operand(Head(todo).this), Operand(Head(todo).other)>>
                               \o Tail(todo), acc)
    ELSE PreOrderFrom(H, Tail(todo), acc)

(* C10: the list bfs returns is the pre-order listing of the tree: a       *)
(* Distribution lists itself; a Mixture itself, then each component's      *)
(* listing in component order; a Value itself, then the listing of what it *)
(* wraps; an Operation its first operand's listing, then its second's.     *)
C10_ListIsPreOrder ==
    \A i \in DOMAIN runs :
        runs[i].parts = PreOrderFrom(nodes, <<runs[i].tree>>, <<>>)

(* C10 witness: the list for test_tree.py's model: the sum, the product,   *)
(* the Mixture and its two normals, x ** 2, x, 2, bias / 5, bias, 5.       *)
C10_Witness ==
    \E i \in DOMAIN runs :
        /\ runs[i].model = 1
        /\ [k \in DOMAIN runs[i].parts |-> nodes[runs[i].parts[k]].kind]
             = <<"Value", "Value", "Mixture", "Distribution", "Distribution",
                 "Value", "Value", "Value", "Value", "Distribution", "Value">>
        /\ runs[i].parts[7] = _tracer
        /\ nodes[runs[i].parts[8]].value = Num(2)
        /\ nodes[runs[i].parts[11]].value = Num(5)

---------------------------------------------------------------------------
RECURSIVE Alike(_, _, _)

(* two objects of the same structure: the same sampling function, the same *)
(* positional arguments, the same keyword arguments in whatever order, and *)
(* components alike one by one                                             *)
Alike(H, a, b) ==
    /\ H[a].kind = H[b].kind
    /\ H[a].function = H[b].function
    /\ H[a].args = H[b].args
    /\ Range(H[a].kwargs) = Range(H[b].kwargs)
    /\ Len(H[a].values) = Len(H[b].values)
    /\ \A i \in DOMAIN H[a].values : Alike(H, H[a].values[i], H[b].values[i])

(* the key of node n in the present state *)
KeyNow(n) == cache_key(nodes, n, ResState(TheMachine, nextArr, 0)).key

(* C11: two stochastic subtrees built independently but of the same        *)
(* structure have equal cache keys under one sample_count, and in one      *)
(* context resolving the second returns the array cached for the first.    *)
C11_AlikeSubtreesShareEntries ==
    /\ \A a, b \in ShareRoots : Alike(nodes, a, b) => KeyNow(a) = KeyNow(b)
    /\ \A i, j \in DOMAIN log :
          (/\ i < j
           /\ Alike(nodes, log[i].node, log[j].node)
           /\ SameContext(log[i], log[j])
           /\ log[i].val.tag = "array")
              => /\ log[j].val = log[i].val
                 /\ log[j].calls = 0

(* C11 witness: a Mixture was sampled, and then another Mixture, built of  *)
(* other objects with a keyword order exchanged, resolved in that context. *)
C11_Witness ==
    \E i, j \in DOMAIN log :
        /\ i < j
        /\ log[i].node = 5 /\ log[j].node = 6
        /\ nodes[1].kwargs # nodes[2].kwargs
        /\ SameContext(log[i], log[j])
        /\ log[i].calls = 2
        /\ log[j].val.tag = "array"

(* the key of node n (a Distribution or a Mixture) under the context ctx *)
KeyUnder(n, ctx) ==
    IF nodes[n].kind = "Distribution" THEN DistributionKey(nodes[n], ctx)
    ELSE CacheKey(NoneV, NoneV, NoneV, Some(ctx.sample_count),
                  Some(MixtureNestedKeys(nodes, nodes[n].values, 1,
                                         ResState(TheMachine, nextArr, 0), <<>>).keys))

(* C13: when the sampling function raises while a Distribution, or a       *)
(* component of a Mixture, is resolved, the caller gets that very error,   *)
(* and the cache holds no entry under the key of the Distribution or of    *)
(* the Mixture.                                                            *)
C13_FailureCachesNothing ==
    \A j \in DOMAIN log :
        log[j].val.tag = "error" =>
            /\ log[j].val = SamplerError
            /\ ~CacheHas(caches[log[j].context.cache],
                         KeyUnder(log[j].node, log[j].context))

(* C13 witness: the resolution of a Mixture failed in its second           *)
(* component, the array of its first component cached by then.             *)
C13_Witness ==
    \E j \in DOMAIN log :
        /\ nodes[log[j].node].kind = "Mixture"
        /\ log[j].val = SamplerError
        /\ log[j].calls = 2
        /\ Len(caches[log[j].context.cache]) = 1

---------------------------------------------------------------------------
(* every field a scope does not override is the enclosing context's, the   *)
(* cache the very same dict                                                *)
ScopesKeepFields ==
    \A i \in DOMAIN managers[Main] :
        \A fld \in {"cache", "cache_rule", "sample_count"} :
            managers[Main][i].kwargs[fld] = NoneV =>
                managers[Main][i].new_context[fld] = managers[Main][i].saved_context[fld]

(* a step that leaves a scope entered without a cache override: all the    *)
(* scope's cache holds is in the cache of the context active afterwards,   *)
(* the enclosing one                                                       *)
ExitKeepsEntries ==
    (/\ Len(managers'[Main]) < Len(managers[Main])
     /\ Last(managers[Main]).kwargs.cache = NoneV)
        => /\ current'[Main] = Last(managers[Main]).saved_context
           /\ \A e \in DOMAIN caches[Last(managers[Main]).new_context.cache] :
                 \E d \in DOMAIN caches'[current'[Main].cache] :
                     caches'[current'[Main].cache][d]
                         = caches[Last(managers[Main]).new_context.cache][e]

(* a resolution inside a scope entered with a dict of its own as the cache *)
(* leaves the enclosing context's cache as it was                          *)
OverrideSparesEnclosing ==
    (/\ log' # log
     /\ managers[Main] # <<>>
     /\ Last(managers[Main]).kwargs.cache # NoneV
     /\ Last(managers[Main]).new_context.cache # Last(managers[Main]).saved_context.cache)
        => caches'[Last(managers[Main]).saved_context.cache]
              = caches[Last(managers[Main]).saved_context.cache]

(* C12: a nested scope entered without a cache override uses the very      *)
(* cache of its enclosing context, so what is stored inside the scope is   *)
(* in the enclosing context's cache after the scope is left; a scope       *)
(* entered with a cache override leaves the enclosing cache unchanged.     *)
C12_NestedScopeSharesCache ==
    /\ []ScopesKeepFields
    /\ [][ExitKeepsEntries /\ OverrideSparesEnclosing]_vars

(* C12 witness: an array sampled inside a scope that only changed the      *)
(* budget, another inside a scope with its own dict; both scopes left, the *)
(* first array is in the top-level context's cache and the second is not.  *)
C12_Witness ==
    /\ Len(log) = 2
    /\ managers[Main] = <<>>
    /\ log[1].context.sample_count = 2
    /\ log[1].calls > 0
    /\ log[1].context.cache = current[Main].cache
    /\ log[2].context.cache = 1
    /\ current[Main].cache # 1
    /\ log[2].calls > 0
    /\ \E e \in DOMAIN caches[current[Main].cache] :
           caches[current[Main].cache][e].value = log[1].val
    /\ \A e \in DOMAIN caches[current[Main].cache] :
           caches[current[Main].cache][e].value # log[2].val
    /\ \E e \in DOMAIN caches[1] : caches[1][e].value = log[2].val

---------------------------------------------------------------------------
(* C14: a reversed binary operation whose left operand is missing (the     *)
(* _empty sentinel) fails when it is built: no Operation is made.          *)
C14_ReversedOnEmptyFails ==
    \A i \in DOMAIN runs :
        runs[i].expr \in ReversedOnEmpty =>
            /\ ~runs[i].ok
            /\ \A n \in runs[i].first..runs[i].last : nodes[n].value.tag # "op"

(* C14 witness: a reversed operator was called without its operand, and    *)
(* another with a Value holding _empty; a Value was made on the way.       *)
C14_Witness ==
    /\ Len(runs) = 2
    /\ runs[1].expr = 5 /\ ~runs[1].ok
    /\ runs[2].expr = 6 /\ ~runs[2].ok
    /\ runs[2].last > runs[2].first

(* the object holds _empty itself, or an Operation whose first operand     *)
(* holds it                                                                *)
NeedsConcrete(n) ==
    \/ nodes[n].value = _empty
    \/ /\ nodes[n].value.tag = "op"
       /\ nodes[nodes[n].value.this].value = _empty

(* C15: resolving a Value that holds _empty, or an Operation (comparisons  *)
(* included) whose first operand holds it, gives the caller an error and   *)
(* never a normal result.                                                  *)
C15_EmptyResolvesToError ==
    \A j \in DOMAIN log :
        NeedsConcrete(log[j].node) => log[j].val.tag = "error"

(* What does hold: an operator other than == and != on an _empty first     *)
(* operand raises.                                                         *)
ArithmeticOnEmptyRaises ==
    \A j \in DOMAIN log :
        (/\ nodes[log[j].node].value.tag = "op"
         /\ nodes[nodes[log[j].node].value.this].value = _empty
         /\ nodes[log[j].node].value.function \notin {"eq", "ne"})
            => log[j].val.tag = "error"

---------------------------------------------------------------------------
(* the array with identity id, as the dict c holds it *)
CachedArray(c, id) ==
    caches[c][CHOOSE e \in DOMAIN caches[c] : caches[c][e].value.id = id].value

(* the arrays a Mixture's array was concatenated from, component by        *)
(* component                                                               *)
PartArrays(j) ==
    [i \in DOMAIN log[j].val.parts |-> CachedArray(log[j].context.cache, log[j].val.parts[i])]

(* Each of the k components of a Mixture resolved under n got n \div k or  *)
(* one more draws, n % k of them one more, and was resolved in a scope     *)
(* whose sample_count was the number of its draws.                         *)
MixtureAllocation ==
    \A j \in DOMAIN log :
        nodes[log[j].node].kind = "Mixture" =>
            /\ Len(log[j].val.parts) = Len(nodes[log[j].node].values)
            /\ \A i \in DOMAIN PartArrays(j) :
                  /\ PartArrays(j)[i].len - (log[j].context.sample_count
                                               \div Len(PartArrays(j))) \in {0, 1}
                  /\ PartArrays(j)[i].sc = PartArrays(j)[i].len
            /\ Cardinality({i \in DOMAIN PartArrays(j) :
                              PartArrays(j)[i].len = (log[j].context.sample_count
                                                        \div Len(PartArrays(j))) + 1})
                  = log[j].context.sample_count % Len(PartArrays(j))
            /\ log[j].val.len = log[j].context.sample_count

(* a resolution leaves the open scopes and the active context as they were *)
ResolutionRestoresScope ==
    log' # log =>
        /\ managers' = managers
        /\ current[Main] # Unset => current'[Main] = current[Main]
        /\ ActiveContext(Main)' = ActiveContext(Main)

(* C16: Mixture sampling under sample_count n over k components gives each *)
(* component n // k or n // k + 1 draws, n % k of them the extra one, n in *)
(* all; each component is resolved in a nested scope whose sample_count is *)
(* its allocation, and the scope active before is active afterwards.       *)
C16_MixtureAllocatesAndRestores ==
    /\ []MixtureAllocation
    /\ [][ResolutionRestoresScope]_vars

(* C16 witness: a Mixture of three sampled under the default budget, which *)
(* three does not divide, inside no scope of the caller's.                 *)
C16_Witness ==
    \E j \in DOMAIN log :
        /\ Len(nodes[log[j].node].values) = 3
        /\ log[j].context.sample_count = DEFAULT_SAMPLE_COUNT
        /\ DEFAULT_SAMPLE_COUNT % 3 # 0
        /\ log[j].calls > 0
        /\ \E i \in DOMAIN PartArrays(j) :
               PartArrays(j)[i].len = (DEFAULT_SAMPLE_COUNT \div 3) + 1
        /\ \E i \in DOMAIN PartArrays(j) :
               PartArrays(j)[i].len = DEFAULT_SAMPLE_COUNT \div 3
        /\ current[Main].sample_count = DEFAULT_SAMPLE_COUNT

(* C17: under cache_rule = never the cache is not consulted: two           *)
(* resolutions of one node each invoke the sampling function.              *)
C17_NeverRuleSamplesAnew ==
    \A i, j \in DOMAIN log :
        (/\ i < j
         /\ log[i].node = log[j].node
         /\ log[i].context.cache_rule = "never"
         /\ log[j].context.cache_rule = "never")
            => /\ log[j].calls > 0
               /\ log[j].val.id # log[i].val.id

---------------------------------------------------------------------------
(* Every entry is an array of as many elements as its key's sample_count   *)
(* says, under a key no other entry of the dict has; every array a         *)
(* resolution returned, and every array a cached Mixture array was made    *)
(* from, is still what its dict holds.                                     *)
CacheConsistent ==
    /\ \A c \in DOMAIN caches : \A e \in DOMAIN caches[c] :
          /\ caches[c][e].value.tag = "array"
          /\ caches[c][e].key.sample_count = Some(caches[c][e].value.len)
          /\ \A d \in DOMAIN caches[c] : caches[c][d].key = caches[c][e].key => d = e
          /\ \A p \in DOMAIN caches[c][e].value.parts :
                \E d \in DOMAIN caches[c] :
                    caches[c][d].value.id = caches[c][e].value.parts[p]
    /\ \A j \in DOMAIN log :
          log[j].val.tag = "array" =>
              \E e \in DOMAIN caches[log[j].context.cache] :
                  caches[log[j].context.cache][e].value = log[j].val

(* no step changes an entry that is stored *)
EntriesStay ==
    \A c \in DOMAIN caches : \A e \in DOMAIN caches[c] :
        /\ c \in DOMAIN caches'
        /\ e \in DOMAIN caches'[c]
        /\ caches'[c][e] = caches[c][e]

(* C19: after any resolutions under any nesting of scopes with differing   *)
(* sample_count on one cache, every entry whose key records sample_count s *)
(* is an array of exactly s elements, Distribution and Mixture entries     *)
(* alike, and an entry once stored is never overwritten.                   *)
C19_EntriesMatchTheirKeys ==
    /\ []CacheConsistent
    /\ [][EntriesStay]_vars

(* C19 witness: one dict holds a Mixture's entry and Distribution entries  *)
(* under several sample_counts, stored from two scopes nested in each      *)
(* other with budgets of their own.                                        *)
C19_Witness ==
    /\ Len(managers[Main]) = 2
    /\ Len(log) = 2
    /\ log[1].context.sample_count # log[2].context.sample_count
    /\ log[1].context.cache = log[2].context.cache
    /\ \E e, d \in DOMAIN caches[log[1].context.cache] :
          /\ caches[log[1].context.cache][e].key.nested # NoneV
          /\ caches[log[1].context.cache][d].key.nested = NoneV
          /\ caches[log[1].context.cache][d].key.sample_count
                # caches[log[1].context.cache][e].key.sample_count
    /\ Cardinality({caches[log[1].context.cache][e].key.sample_count :
                       e \in DOMAIN caches[log[1].context.cache]}) >= 3

---------------------------------------------------------------------------
Covered(i, m) ==
    \E k \in DOMAIN runs[i].parts :
        /\ k < m
        /\ runs[i].before[k] # NoneV
        /\ m < k + Len(_bfs(nodes, Ref(runs[i].parts[k])))

(* the occurrences of the object at position k of the listing of run i     *)
(* that lie beneath no such object                                         *)
OpenOccurrences(i, k) ==
    {m \in DOMAIN runs[i].parts :
        runs[i].parts[m] = runs[i].parts[k] /\ ~Covered(i, m)}

===========================================================================
